---- MODULE Spec2Model ----
(***************************************************************************)
(* The NPC spawner of the delivery game (npcSpawner.ts), the scoreboard    *)
(* of ui.tsx and the game-end helpers of helpers.ts, as a state machine.   *)
(*                                                                         *)
(* Every callback registered with engine.addSystem is one action; a step   *)
(* of the action is one invocation of the callback by the frame loop.  The *)
(* callbacks of different NPCs interleave freely, which covers every order *)
(* in which the engine can run them within and across frames.  A closure   *)
(* that can no longer act (its entity is gone, it has no system and no     *)
(* pointer handler that could still deliver) is dropped from the state.    *)
(*                                                                         *)
(* Code that runs nested inside a callback (incrementBadDelivered calling  *)
(* gameFinished calling removeAllNPCs ...) is written as operators from a  *)
(* "world" record (the value of all program variables) to a world record,  *)
(* composed in the order of the source; the action commits the last one.   *)
(***************************************************************************)
EXTENDS Integers, Sequences, FiniteSets, TLC

VARIABLES
  spots,          \* NPCSpawner.spots: spot id -> occupied
  npcIndex,       \* NPCSpawner.npcIndex
  elapsedTime,    \* NPCSpawner.elapsedTime (ms)
  isSpawning,     \* NPCSpawner.isSpawning
  activeNPCs,     \* NPCSpawner.activeNPCs: sequence of NPC closures
  npcs,           \* per createWalkingNPC call: the entity and the closure's locals
  systems,        \* the engine's systems, by name: <<name, npcId>> -> owner, elapsed
  goodDelivered,  \* ui.tsx
  badDelivered,   \* ui.tsx
  isGameOver,     \* ui.tsx (showPlayAgainButton is always equal to it)
  gameFinishedEntity, \* helpers.ts: none, or the model it shows (win, lose)
  playerItem,     \* the item attached to the player's right hand
  strayItem,      \* an item made for an NPC that is gone, attached to nothing
  calls           \* history: the calls of public methods made by other code

vars == <<spots, npcIndex, elapsedTime, isSpawning, activeNPCs, npcs, systems,
          goodDelivered, badDelivered, isGameOver, gameFinishedEntity, playerItem,
          strayItem, calls>>

----------------------------------------------------------------------------
(* Bounds of the model *)

\* createWalkingNPC closures that can exist at one time, which is also the bound
\* of npcIndex (restartSpawning sets it back to 0)
MaxNPCs == 3
\* the same, in the specifications that have a player
MaxLive == 2
\* the same, in the specification that draws every random value
MaxSolo == 1
\* calls of public methods by other code than gameFinished and resetGame
MaxCalls == 2
\* the frame delta handed to every system, in milliseconds
DtMs == 10000
\* the frame delta of the spawner where the pace of its creations is looked at
PaceDt == 500
\* the frame delta of the arrival systems where the arrival staging is looked at
ArriveDt == 500
\* the frame delta of the countdown where its deadline is looked at
WaitDt == 2000

(* Program constants *)

DELIVERED_TO_WIN == 5
DELIVERED_TO_LOSE == 5
NPC_SPAWN_INTERVAL == 2000
NPC_WAIT_TIME == 20
NPC_WAIT_TIME_VARIATION == 2
\* moveDuration + 100 = (0.5 / 1.2) * 1000 + 100, rounded up to whole ms
ArrivalEmoteDelay == 517
ArrivalEmoteDuration == 2000
GoodbyeDelayDuration == 100
GoodbyeEmoteDuration == 2000
ThankEmoteDuration == 2000
\* emoteTriggerTime: 30 % of the walk-in; the walk-in to the nearest spot takes 4336 ms
WalkingEmoteTrigger == 1300

NPC_SPOTS == <<0, 1, 2>>
SpotIds == {NPC_SPOTS[i] : i \in DOMAIN NPC_SPOTS}
NoSpot == -1

arrivalEmotes == <<"wave", "raiseHand", "handsup">>
goodbyeEmotes == <<"clap", "dontsee">>

ItemType == {"herb", "cup", "ore", "iron", "axe", "potion"}
NoItem == "none"
\* the item types the stations hand the player in the model: the two that an NPC
\* can expect, each of which is the wrong one for the other race
HeldTypes == {"axe", "potion"}
\* the arrival emote drawn in the model (the draw has no effect on behaviour)
ArrivalDraws == {arrivalEmotes[2]}
\* the wait time drawn in the model, in ms: randomVariation = 0
WaitDraws == {NPC_WAIT_TIME * 1000}

\* the values of Math.random() in the model, in thousandths: [0, 1)
RandomDraws == {0, 250, 500, 999}

\* a variation of twice the range
randomVariationWide(r) == (r - 500) * 4 * NPC_WAIT_TIME_VARIATION

\* (Math.random() - 0.5) * 2 * NPC_WAIT_TIME_VARIATION, in ms
randomVariation(r) == (r - 500) * 2 * NPC_WAIT_TIME_VARIATION

\* the actualWaitTime that startWaitTimer computes from its draw, in ms
WaitRange == {NPC_WAIT_TIME * 1000 + randomVariation(r) : r \in RandomDraws}

Slots == 1..MaxNPCs

SystemNames == {"checkArrival", "walkingEmote", "arrivalEmote", "arrivalEmoteEnd",
                "waitTimer", "goodbyeEmoteDelay", "goodbyeEmote", "thankEmote",
                "checkReturn"}

----------------------------------------------------------------------------
(* One createWalkingNPC call: the entity npc and the locals of the closure *)

NoNPC ==
  [ used |-> FALSE,                 \* createWalkingNPC got past occupySpot
    exists |-> FALSE,               \* Transform.has(npc) && AvatarShape.has(npc)
    npcId |-> 0,
    spotId |-> NoSpot,
    isElf |-> FALSE,
    hasReceivedItem |-> FALSE,
    noLongerAcceptsItems |-> FALSE,
    interactionHandler |-> FALSE,   \* interactionHandler # null
    collider |-> FALSE,             \* Transform.has(colliderEntity)
    planeVisible |-> FALSE,         \* the countdown indicator avatarPlane
    atOrigin |-> FALSE,             \* distance(position, startPos) < 0.1
    atSpot |-> FALSE,               \* distance(position, spotPos) < 0.1
    tween |-> "none",               \* the Tween component: none, toSpot, toOrigin
    actualWaitTime |-> 0,           \* ms
    emoteActivated |-> FALSE,       \* local of the arrivalEmote system
    isGood |-> FALSE,               \* the argument of the last sendNPCBack call
    expression |-> "",              \* AvatarShape.expressionTriggerId
    item |-> NoItem,                \* the item entity created for this NPC
    itemAttached |-> FALSE,         \* that entity has an AvatarAttach to this NPC
    \* history, not program state:
    scored |-> 0,                   \* increment...Delivered calls made by this closure
    exiting |-> FALSE,              \* sendNPCBack got past its existence check
    exits |-> 0,                    \* the times it did, up to 2
    confetti |-> NoSpot ]           \* the argument of its activateConfettiAtSpot call

\* the step has called neither showUIMessage nor clearUIMessage
NoMessage == "unset"

\* the value of all program variables
World ==
  [ spots |-> spots, npcIndex |-> npcIndex, elapsedTime |-> elapsedTime,
    isSpawning |-> isSpawning, activeNPCs |-> activeNPCs, npcs |-> npcs,
    systems |-> systems, goodDelivered |-> goodDelivered,
    badDelivered |-> badDelivered, isGameOver |-> isGameOver,
    gameFinishedEntity |-> gameFinishedEntity,
    playerItem |-> playerItem, strayItem |-> strayItem,
    thrown |-> FALSE,               \* an exception is propagating
    removeFails |-> FALSE,          \* removeEntity throws for items in this step
    message |-> NoMessage ]         \* what the step has set currentMessage to

\* closure n can still run: it has an entity, a system, a handler that would get
\* past the guards of giveItemToNPC, or an item the player can be taken to hold
Reachable(w, n) ==
  \/ w.npcs[n].exists
  \/ \E k \in DOMAIN w.systems : w.systems[k].owner = n
  \/ /\ w.npcs[n].interactionHandler /\ w.npcs[n].collider
     /\ ~w.npcs[n].hasReceivedItem /\ ~w.npcs[n].noLongerAcceptsItems
  \/ w.npcs[n].item # NoItem /\ w.npcs[n].itemAttached

\* the closures that cannot run any more leave the state; the item of such a
\* closure stays in the scene
Collect(w) ==
  LET dead == {n \in Slots : w.npcs[n].used /\ ~Reachable(w, n)}
  IN [w EXCEPT !.npcs = [n \in Slots |-> IF n \in dead THEN NoNPC ELSE w.npcs[n]],
               !.strayItem = w.strayItem \/ \E n \in dead : w.npcs[n].item # NoItem]

Commit(w) ==
  \E c \in {Collect(v) : v \in {w}} :
     /\ spots' = c.spots
     /\ npcIndex' = c.npcIndex
     /\ elapsedTime' = c.elapsedTime
     /\ isSpawning' = c.isSpawning
     /\ activeNPCs' = c.activeNPCs
     /\ npcs' = c.npcs
     /\ systems' = c.systems
     /\ goodDelivered' = c.goodDelivered
     /\ badDelivered' = c.badDelivered
     /\ isGameOver' = c.isGameOver
     /\ gameFinishedEntity' = c.gameFinishedEntity
     /\ playerItem' = c.playerItem
     /\ strayItem' = c.strayItem
     /\ UNCHANGED calls

Key(name, n) == <<name, npcs[n].npcId>>

\* the system registered under this name is the callback of closure n
Registered(name, n) ==
  /\ npcs[n].used
  /\ Key(name, n) \in DOMAIN systems
  /\ systems[Key(name, n)].owner = n

\* engine.addSystem(fn, 0, name): throws when the name is in use
addSystem(w, key, n) ==
  IF key \in DOMAIN w.systems
  THEN [w EXCEPT !.thrown = TRUE]
  ELSE [w EXCEPT !.systems =
          [k \in DOMAIN w.systems \cup {key} |->
             IF k = key THEN [owner |-> n, t |-> 0] ELSE w.systems[k]]]

\* engine.removeSystem(name): no effect when there is no such system
removeSystem(w, key) ==
  [w EXCEPT !.systems = [k \in DOMAIN w.systems \ {key} |-> w.systems[k]]]

\* no timer is compared with more than the longest wait, in ms: beyond it the
\* elapsed time of a system is kept at it
TimerCap == (NPC_WAIT_TIME + NPC_WAIT_TIME_VARIATION) * 1000

\* elapsed += dt in the closure of a system
addElapsed(w, key, dt) ==
  [w EXCEPT !.systems[key].t =
     IF w.systems[key].t + dt <= TimerCap THEN w.systems[key].t + dt ELSE TimerCap]

----------------------------------------------------------------------------
(* Spot registry *)

\* getFreeSpot falling back to the first spot of the array when none is free
getFreeSpotOrFirst(w) ==
  IF \E i \in DOMAIN NPC_SPOTS : ~w.spots[NPC_SPOTS[i]]
  THEN NPC_SPOTS[CHOOSE i \in DOMAIN NPC_SPOTS :
                   /\ ~w.spots[NPC_SPOTS[i]]
                   /\ \A j \in DOMAIN NPC_SPOTS : ~w.spots[NPC_SPOTS[j]] => i <= j]
  ELSE NPC_SPOTS[1]

\* a getFreeSpot that scans the array from its end
getFreeSpotFromEnd(w) ==
  LET free == {i \in DOMAIN NPC_SPOTS : ~w.spots[NPC_SPOTS[i]]}
  IN IF free = {} THEN NoSpot
     ELSE NPC_SPOTS[CHOOSE i \in free : \A j \in free : i >= j]

\* the first spot of the array that is not occupied, or NoSpot
getFreeSpot(w) ==
  LET free == {i \in DOMAIN NPC_SPOTS : ~w.spots[NPC_SPOTS[i]]}
  IN IF free = {} THEN NoSpot
     ELSE NPC_SPOTS[CHOOSE i \in free : \A j \in free : i <= j]

\* an occupySpot that does not look at the occupied flag
occupySpotOkAlways(w, spotId) == spotId \in SpotIds

\* the value occupySpot returns
occupySpotOk(w, spotId) == spotId \in SpotIds /\ ~w.spots[spotId]

occupySpot(w, spotId) ==
  IF occupySpotOk(w, spotId) THEN [w EXCEPT !.spots[spotId] = TRUE] ELSE w

freeSpot(w, spotId) ==
  IF spotId \in SpotIds THEN [w EXCEPT !.spots[spotId] = FALSE] ELSE w

----------------------------------------------------------------------------
(* Entities *)

\* engine.removeEntity(npc): every component of npc is deleted; the collider, the
\* countdown plane and the item created for the NPC are entities of their own
removeNPCEntity(r) ==
  [r EXCEPT !.exists = FALSE, !.tween = "none", !.atOrigin = FALSE, !.atSpot = FALSE]

\* a hasItemInRightHand that does not look at whose hand the item is attached to
HeldCandidatesOfAnyone(w) ==
  (IF w.playerItem # NoItem THEN {0} ELSE {})
    \cup {m \in Slots : w.npcs[m].item # NoItem /\ w.npcs[m].itemAttached}

\* the slots of the items hasItemInRightHand takes for the player's: 0 is the item
\* attached to the player, m > 0 the item attached to an NPC whose AvatarShape is gone
HeldCandidates(w) ==
  (IF w.playerItem # NoItem THEN {0} ELSE {})
    \cup {m \in Slots : /\ w.npcs[m].item # NoItem
                        /\ w.npcs[m].itemAttached
                        /\ ~w.npcs[m].exists}

heldItemId(w, h) == IF h = 0 THEN w.playerItem ELSE w.npcs[h].item

\* an engine.removeEntity(itemEntity) that fails for the player's item
removeItemEntityOfNPC(w, h) ==
  IF h = 0 THEN w
  ELSE [w EXCEPT !.npcs[h].item = NoItem, !.npcs[h].itemAttached = FALSE]

\* engine.removeEntity(itemEntity)
removeItemEntity(w, h) ==
  IF w.removeFails THEN w
  ELSE IF h = 0 THEN [w EXCEPT !.playerItem = NoItem]
  ELSE [w EXCEPT !.npcs[h].item = NoItem, !.npcs[h].itemAttached = FALSE]

\* every entity with a Material goes, but for the items attached to an NPC that has
\* an AvatarShape
removeAllItems(w) ==
  [w EXCEPT
     !.playerItem = NoItem,
     !.strayItem = FALSE,
     !.npcs = [m \in Slots |->
                 IF w.npcs[m].itemAttached /\ w.npcs[m].exists THEN w.npcs[m]
                 ELSE [w.npcs[m] EXCEPT !.item = NoItem, !.itemAttached = FALSE]]]

----------------------------------------------------------------------------
(* Public methods of the spawner *)

InList(seq, n) == \E i \in DOMAIN seq : seq[i] = n

\* a removeAllNPCs that forgets the NPCs without removing their entities
removeAllNPCsFromListOnly(w) ==
  [w EXCEPT !.spots = [s \in SpotIds |-> FALSE], !.activeNPCs = <<>>]

removeAllNPCs(w) ==
  [w EXCEPT
     !.spots = [s \in SpotIds |-> FALSE],
     !.npcs = [m \in Slots |->
                 IF InList(w.activeNPCs, m)
                 THEN removeNPCEntity(w.npcs[m])
                 ELSE w.npcs[m]],
     !.activeNPCs = <<>>]

\* a stopSpawning that leaves the spawner active
stopSpawningNot(w) == w

stopSpawning(w) == [w EXCEPT !.isSpawning = FALSE]

\* a restartSpawning that removes the NPCs as well
restartSpawningRemoving(w) ==
  [removeAllNPCs(w) EXCEPT !.isSpawning = TRUE, !.npcIndex = 0, !.elapsedTime = 0]

restartSpawning(w) ==
  [w EXCEPT !.isSpawning = TRUE, !.npcIndex = 0, !.elapsedTime = 0,
            !.spots = [s \in SpotIds |-> FALSE]]

\* a removeNPCFromList that leaves the list as it is
removeNPCFromListNot(w, n) == w

\* activeNPCs.splice(indexOf(npc), 1)
removeNPCFromList(w, n) ==
  IF InList(w.activeNPCs, n)
  THEN LET i == CHOOSE j \in DOMAIN w.activeNPCs :
                  /\ w.activeNPCs[j] = n
                  /\ \A l \in DOMAIN w.activeNPCs : w.activeNPCs[l] = n => j <= l
       IN [w EXCEPT !.activeNPCs =
             SubSeq(w.activeNPCs, 1, i - 1) \o SubSeq(w.activeNPCs, i + 1, Len(w.activeNPCs))]
  ELSE w

----------------------------------------------------------------------------
(* Scoreboard and game end *)

showUIMessage(w, text) == [w EXCEPT !.message = text]

clearUIMessage(w) == [w EXCEPT !.message = ""]

\* a gameFinished that leaves the NPCs where they are
gameFinishedKeepingNPCs(w, winner) ==
  [removeAllItems(stopSpawning(clearUIMessage(w))) EXCEPT
     !.gameFinishedEntity = IF winner THEN "win" ELSE "lose",
     !.isGameOver = TRUE]

gameFinished(w, winner) ==
  [removeAllItems(removeAllNPCs(stopSpawning(clearUIMessage(w)))) EXCEPT
     !.gameFinishedEntity = IF winner THEN "win" ELSE "lose",
     !.isGameOver = TRUE]

\* an incrementGoodDelivered that ends the game one delivery late
incrementGoodDeliveredLate(w) ==
  LET w1 == [w EXCEPT !.goodDelivered = w.goodDelivered + 1]
  IN IF w1.goodDelivered > DELIVERED_TO_WIN THEN gameFinished(w1, TRUE) ELSE w1

incrementGoodDelivered(w) ==
  LET w1 == [w EXCEPT !.goodDelivered = w.goodDelivered + 1]
  IN IF w1.goodDelivered >= DELIVERED_TO_WIN THEN gameFinished(w1, TRUE) ELSE w1

incrementBadDelivered(w) ==
  LET w1 == [w EXCEPT !.badDelivered = w.badDelivered + 1]
  IN IF w1.badDelivered >= DELIVERED_TO_LOSE THEN gameFinished(w1, FALSE) ELSE w1

\* a resetGame that keeps the scores of the game that has ended
resetGameKeepingScores(w) ==
  clearUIMessage(restartSpawning([w EXCEPT !.gameFinishedEntity = "none",
                                           !.isGameOver = FALSE]))

resetGame(w) ==
  clearUIMessage(restartSpawning([w EXCEPT !.goodDelivered = 0, !.badDelivered = 0,
                                           !.gameFinishedEntity = "none",
                                           !.isGameOver = FALSE]))

----------------------------------------------------------------------------
(* The functions of one createWalkingNPC closure; n is the closure *)

CleanupNames == {"goodbyeEmote", "thankEmote", "walkingEmote", "arrivalEmote",
                 "arrivalEmoteEnd", "checkArrival", "checkReturn", "spinnerRotation",
                 "waitTimer"}

\* cleanupNPCSystems without its removeSystem of walkingEmote
cleanupKeepingWalkingEmote(w, n) ==
  [w EXCEPT !.systems =
     [k \in {x \in DOMAIN w.systems :
               ~(x[2] = w.npcs[n].npcId /\ x[1] \in CleanupNames \ {"walkingEmote"})}
        |-> w.systems[k]]]

\* engine.removeSystem of every name but goodbyeEmoteDelay, by name
cleanupNPCSystems(w, n) ==
  [w EXCEPT !.systems =
     [k \in {x \in DOMAIN w.systems :
               ~(x[2] = w.npcs[n].npcId /\ x[1] \in CleanupNames)} |-> w.systems[k]]]

activateInteraction(w, n) ==
  IF ~w.npcs[n].interactionHandler /\ w.npcs[n].collider
  THEN [w EXCEPT !.npcs[n].interactionHandler = TRUE]
  ELSE w

deactivateInteraction(w, n) ==
  IF w.npcs[n].interactionHandler /\ w.npcs[n].collider
  THEN [w EXCEPT !.npcs[n].collider = FALSE, !.npcs[n].interactionHandler = FALSE]
  ELSE w

startWaitTimer(w, n, waitTime) ==
  addSystem(removeSystem([w EXCEPT !.npcs[n].actualWaitTime = waitTime],
                         <<"waitTimer", w.npcs[n].npcId>>),
            <<"waitTimer", w.npcs[n].npcId>>, n)

\* startReturnCheckSystem that registers nothing
startReturnCheckMissing(w, n) == w

startReturnCheckSystem(w, n) == addSystem(w, <<"checkReturn", w.npcs[n].npcId>>, n)

\* sendNPCBack without its freeSpot
sendNPCBackKeepingSpot(w, n, isGood) ==
  IF ~w.npcs[n].exists THEN w
  ELSE addSystem([w EXCEPT !.npcs[n].tween = "none",
                           !.npcs[n].isGood = isGood,
                           !.npcs[n].exiting = TRUE],
                 <<"goodbyeEmoteDelay", w.npcs[n].npcId>>, n)

\* frees the spot, stops the NPC and registers goodbyeEmoteDelay
sendNPCBack(w, n, isGood) ==
  IF ~w.npcs[n].exists THEN w
  ELSE addSystem([freeSpot(w, w.npcs[n].spotId) EXCEPT
                    !.npcs[n].tween = "none",
                    !.npcs[n].isGood = isGood,
                    !.npcs[n].exits = IF @ < 2 THEN @ + 1 ELSE 2,
                    !.npcs[n].exiting = TRUE],
                 <<"goodbyeEmoteDelay", w.npcs[n].npcId>>, n)

\* expectedItemType with the two races swapped
expectedItemTypeSwapped(isElf) == IF isElf THEN "axe" ELSE "potion"

expectedItemType(isElf) == IF isElf THEN "potion" ELSE "axe"

\* the try block of giveItemToNPC, from the item type to NPCItem.create; an
\* exception of addSystem ends it (catch)
giveItemTry(w, n, h) ==
  LET id == w.npcs[n].npcId
      receivedItemType == heldItemId(w, h)
      isCorrectItem == receivedItemType = expectedItemType(w.npcs[n].isElf)
      w1 == clearUIMessage(removeItemEntity(w, h))
      w2 == IF isCorrectItem
            THEN incrementGoodDelivered([w1 EXCEPT !.npcs[n].scored = @ + 1])
            ELSE showUIMessage(
                   incrementBadDelivered([w1 EXCEPT !.npcs[n].scored = @ + 1]),
                   "Wrong item")
      w3 == IF isCorrectItem /\ w2.npcs[n].exists
            THEN addSystem([w2 EXCEPT !.npcs[n].tween = "none",
                                      !.npcs[n].expression = goodbyeEmotes[1],
                                      !.npcs[n].confetti = w2.npcs[n].spotId],
                           <<"thankEmote", id>>, n)
            ELSE w2
  IN IF w3.thrown THEN [w3 EXCEPT !.thrown = FALSE]
     ELSE [w3 EXCEPT !.npcs[n].item = receivedItemType,
                     !.npcs[n].itemAttached = w3.npcs[n].exists]

\* giveItemToNPC without its hasReceivedItem guard
giveItemToNPCTwice(w, n, h) ==
  IF w.isGameOver THEN w
  ELSE IF w.npcs[n].noLongerAcceptsItems
  THEN showUIMessage(w, "Too late! The customer is already leaving")
  ELSE LET isCorrectItem == heldItemId(w, h) = expectedItemType(w.npcs[n].isElf)
           w1 == giveItemTry([w EXCEPT !.npcs[n].hasReceivedItem = TRUE], n, h)
       IN IF w1.npcs[n].exists THEN sendNPCBack(w1, n, isCorrectItem) ELSE w1

\* giveItemToNPC without its noLongerAcceptsItems guard
giveItemToNPCLate(w, n, h) ==
  IF w.isGameOver \/ w.npcs[n].hasReceivedItem
  THEN w
  ELSE LET isCorrectItem == heldItemId(w, h) = expectedItemType(w.npcs[n].isElf)
           w1 == giveItemTry([w EXCEPT !.npcs[n].hasReceivedItem = TRUE], n, h)
       IN IF w1.npcs[n].exists THEN sendNPCBack(w1, n, isCorrectItem) ELSE w1

\* a giveItemToNPC without its isGameOverActive check
giveItemToNPCAnytime(w, n, h) ==
  IF w.npcs[n].noLongerAcceptsItems
  THEN showUIMessage(w, "Too late! The customer is already leaving")
  ELSE IF w.npcs[n].hasReceivedItem THEN w
  ELSE LET isCorrectItem == heldItemId(w, h) = expectedItemType(w.npcs[n].isElf)
           w1 == giveItemTry([w EXCEPT !.npcs[n].hasReceivedItem = TRUE], n, h)
       IN IF w1.npcs[n].exists THEN sendNPCBack(w1, n, isCorrectItem) ELSE w1

giveItemToNPC(w, n, h) ==
  IF w.isGameOver THEN w
  ELSE IF w.npcs[n].noLongerAcceptsItems
  THEN showUIMessage(w, "Too late! The customer is already leaving")
  ELSE IF w.npcs[n].hasReceivedItem THEN w
  ELSE LET isCorrectItem == heldItemId(w, h) = expectedItemType(w.npcs[n].isElf)
           w1 == giveItemTry([w EXCEPT !.npcs[n].hasReceivedItem = TRUE], n, h)
       IN IF w1.npcs[n].exists THEN sendNPCBack(w1, n, isCorrectItem) ELSE w1

\* occupySpot to the registration of checkArrival; elf and wave are the random draws
createWalkingNPC(w, n, npcId, spotId, elf, wave) ==
  IF ~occupySpotOk(w, spotId) THEN w
  ELSE LET w1 == [occupySpot(w, spotId) EXCEPT
                    !.activeNPCs = Append(w.activeNPCs, n),
                    !.npcs[n] = [NoNPC EXCEPT !.used = TRUE, !.exists = TRUE,
                                              !.npcId = npcId, !.spotId = spotId,
                                              !.isElf = elf, !.collider = TRUE,
                                              !.atOrigin = TRUE, !.tween = "toSpot"]]
           w2 == IF wave THEN addSystem(w1, <<"walkingEmote", npcId>>, n) ELSE w1
       IN IF w2.thrown THEN w2 ELSE addSystem(w2, <<"checkArrival", npcId>>, n)

----------------------------------------------------------------------------
(* The systems: one action per callback, one step per invocation *)

Min(a, b) == IF a <= b THEN a ELSE b

\* elapsedTime is only compared with npcIndex * spawnInterval: beyond every such
\* product of the model it is kept at one value
ElapsedCap == (MaxNPCs + 1) * NPC_SPAWN_INTERVAL

\* the closure the next createWalkingNPC call makes
NextSlot(n) == ~npcs[n].used /\ \A m \in Slots : ~npcs[m].used => n <= m

Live == {n \in Slots : npcs[n].used}

\* a callback that does not look at isSpawning
startSpawningAlways(w, dt, n, elf, wave) ==
  LET w0 == [w EXCEPT !.elapsedTime = Min(w.elapsedTime + dt, ElapsedCap)]
      freeSpotId == getFreeSpot(w0)
  IN IF w0.elapsedTime >= w0.npcIndex * NPC_SPAWN_INTERVAL /\ freeSpotId # NoSpot
     THEN LET w1 == createWalkingNPC(w0, n, w0.npcIndex, freeSpotId, elf, wave)
          IN IF w1.thrown THEN w1
             ELSE [w1 EXCEPT !.npcIndex = w1.npcIndex + 1]
     ELSE w0

\* a callback that does not look at the elapsed time
startSpawningEager(w, dt, n, elf, wave) ==
  IF ~w.isSpawning THEN w
  ELSE LET w0 == [w EXCEPT !.elapsedTime = Min(w.elapsedTime + dt, ElapsedCap)]
           freeSpotId == getFreeSpot(w0)
       IN IF freeSpotId # NoSpot
          THEN LET w1 == createWalkingNPC(w0, n, w0.npcIndex, freeSpotId, elf, wave)
               IN IF w1.thrown THEN w1
                  ELSE [w1 EXCEPT !.npcIndex = w1.npcIndex + 1]
          ELSE w0

\* the callback that startSpawning registers, run with frame delta dt; n is the
\* closure a createWalkingNPC call makes, elf and wave are its random draws
startSpawning(w, dt, n, elf, wave) ==
  IF ~w.isSpawning THEN w
  ELSE LET w0 == [w EXCEPT !.elapsedTime = Min(w.elapsedTime + dt, ElapsedCap)]
           freeSpotId == getFreeSpot(w0)
       IN IF w0.elapsedTime >= w0.npcIndex * NPC_SPAWN_INTERVAL /\ freeSpotId # NoSpot
          THEN LET w1 == createWalkingNPC(w0, n, w0.npcIndex, freeSpotId, elf, wave)
               IN IF w1.thrown THEN w1
                  ELSE [w1 EXCEPT !.npcIndex = w1.npcIndex + 1]
          ELSE w0

\* the callback run with dt gets as far as addEntity
spawnDue(w, dt) ==
  LET w0 == [w EXCEPT !.elapsedTime = Min(w.elapsedTime + dt, ElapsedCap)]
  IN /\ w.isSpawning
     /\ w0.elapsedTime >= w0.npcIndex * NPC_SPAWN_INTERVAL
     /\ getFreeSpot(w0) # NoSpot
     /\ occupySpotOk(w0, getFreeSpot(w0))

\* the system of startSpawning; cap bounds the closures and their ids, elfs and
\* waves are the values the random draws can take
spawnerSystem(dt, cap, elfs, waves) ==
  /\ isSpawning
  /\ IF spawnDue(World, dt)
     THEN /\ npcIndex < cap
          /\ Cardinality(Live) < cap
          /\ \E n \in Slots, elf \in elfs, wave \in waves :
               /\ NextSlot(n)
               /\ Commit(startSpawning(World, dt, n, elf, wave))
     ELSE Commit(startSpawning(World, dt, 1, FALSE, FALSE))

\* the engine moves the entity along its Tween; the model has the two ends only
tweenSystem(n) ==
  /\ npcs[n].exists
  /\ npcs[n].tween # "none"
  /\ Commit([World EXCEPT !.npcs[n].atSpot = (npcs[n].tween = "toSpot"),
                          !.npcs[n].atOrigin = (npcs[n].tween = "toOrigin"),
                          !.npcs[n].tween = "none"])

walkingEmoteSystem(n, dt) ==
  /\ Registered("walkingEmote", n)
  /\ LET k == Key("walkingEmote", n)
         w1 == addElapsed(World, k, dt)
         t0 == systems[k].t
         t1 == w1.systems[k].t
         w2 == IF t0 < WalkingEmoteTrigger /\ t1 >= WalkingEmoteTrigger
               THEN [w1 EXCEPT !.npcs[n].expression = "wave"] ELSE w1
     IN Commit(IF ~npcs[n].exists THEN removeSystem(World, k)
               ELSE IF t1 >= WalkingEmoteTrigger + 2000 THEN removeSystem(w2, k)
               ELSE w2)

checkArrivalSystem(n) ==
  /\ Registered("checkArrival", n)
  /\ LET k == Key("checkArrival", n)
         w1 == addSystem([World EXCEPT !.npcs[n].tween = "none"],
                         Key("arrivalEmote", n), n)
     IN Commit(IF ~npcs[n].exists THEN removeSystem(World, k)
               ELSE IF ~npcs[n].atSpot THEN World
               ELSE IF w1.thrown
                    THEN removeSystem(cleanupNPCSystems([w1 EXCEPT !.thrown = FALSE], n), k)
                    ELSE removeSystem(w1, k))

arrivalEmoteSystem(n, dt, emote) ==
  /\ Registered("arrivalEmote", n)
  /\ LET k == Key("arrivalEmote", n)
         w1 == addElapsed(World, k, dt)
         w2 == addSystem([w1 EXCEPT !.npcs[n].emoteActivated = TRUE,
                                    !.npcs[n].expression = emote],
                         Key("arrivalEmoteEnd", n), n)
     IN Commit(IF ~npcs[n].exists THEN removeSystem(World, k)
               ELSE IF npcs[n].emoteActivated \/ w1.systems[k].t < ArrivalEmoteDelay
                    THEN w1
               ELSE IF w2.thrown THEN w2
               ELSE removeSystem(w2, k))

\* an arrivalEmoteEnd that does not hold the animation
arrivalEmoteEndSystemHasty(n, dt, waitTime) ==
  /\ Registered("arrivalEmoteEnd", n)
  /\ LET k == Key("arrivalEmoteEnd", n)
         w1 == addElapsed(World, k, dt)
         w2 == [removeSystem(w1, k) EXCEPT !.npcs[n].planeVisible = TRUE]
     IN Commit(IF ~npcs[n].exists THEN removeSystem(World, k)
               ELSE startWaitTimer(activateInteraction(w2, n), n, waitTime))

arrivalEmoteEndSystem(n, dt, waitTime) ==
  /\ Registered("arrivalEmoteEnd", n)
  /\ LET k == Key("arrivalEmoteEnd", n)
         w1 == addElapsed(World, k, dt)
         w2 == [removeSystem(w1, k) EXCEPT !.npcs[n].planeVisible = TRUE]
     IN Commit(IF ~npcs[n].exists THEN removeSystem(World, k)
               ELSE IF w1.systems[k].t < ArrivalEmoteDuration THEN w1
               ELSE startWaitTimer(activateInteraction(w2, n), n, waitTime))

\* the expiry branch without its incrementBadDelivered
waitExpiredUnscored(w, n) ==
  LET w1 == deactivateInteraction([w EXCEPT !.npcs[n].noLongerAcceptsItems = TRUE], n)
      w3 == sendNPCBack(w1, n, FALSE)
  IN IF w3.thrown THEN w3 ELSE removeSystem(w3, <<"waitTimer", w.npcs[n].npcId>>)

\* the expiry branch of the wait timer
waitExpired(w, n) ==
  LET w1 == deactivateInteraction([w EXCEPT !.npcs[n].noLongerAcceptsItems = TRUE], n)
      w2 == incrementBadDelivered([w1 EXCEPT !.npcs[n].scored = @ + 1])
      w3 == sendNPCBack(w2, n, FALSE)
  IN IF w3.thrown THEN w3 ELSE removeSystem(w3, <<"waitTimer", w.npcs[n].npcId>>)

\* the callback startWaitTimer registers
\* a countdown that does not look whether its NPC has been served
waitTimerCallbackDeaf(w, n, dt) ==
  LET k == <<"waitTimer", w.npcs[n].npcId>>
      w1 == addElapsed(w, k, dt)
  IN IF ~w.npcs[n].exists THEN removeSystem(w, k)
     ELSE IF w1.systems[k].t < w.npcs[n].actualWaitTime THEN w1
     ELSE waitExpired(w1, n)

\* a countdown that does not look whether its NPC is still there
waitTimerCallbackBlind(w, n, dt) ==
  LET k == <<"waitTimer", w.npcs[n].npcId>>
      w1 == addElapsed(w, k, dt)
  IN IF w.npcs[n].hasReceivedItem THEN removeSystem(w, k)
     ELSE IF w1.systems[k].t < w.npcs[n].actualWaitTime THEN w1
     ELSE waitExpired(w1, n)

waitTimerCallback(w, n, dt) ==
  LET k == <<"waitTimer", w.npcs[n].npcId>>
      w1 == addElapsed(w, k, dt)
  IN IF w.npcs[n].hasReceivedItem \/ ~w.npcs[n].exists THEN removeSystem(w, k)
     ELSE IF w1.systems[k].t < w.npcs[n].actualWaitTime THEN w1
     ELSE waitExpired(w1, n)

\* the engine calls the waitTimer of closure n in a frame that has got to w, if
\* it is still registered there
runWaitTimer(w, n, dt) ==
  LET k == <<"waitTimer", w.npcs[n].npcId>>
  IN IF k \in DOMAIN w.systems /\ w.systems[k].owner = n
     THEN waitTimerCallback(w, n, dt)
     ELSE w

waitTimerSystem(n, dt) ==
  /\ Registered("waitTimer", n)
  /\ Commit(waitTimerCallback(World, n, dt))

\* the system sendNPCBack registers
goodbyeEmoteDelaySystem(n, dt) ==
  /\ Registered("goodbyeEmoteDelay", n)
  /\ LET k == Key("goodbyeEmoteDelay", n)
         w1 == addElapsed(World, k, dt)
         w2 == deactivateInteraction(
                 [removeSystem(w1, k) EXCEPT !.npcs[n].planeVisible = FALSE], n)
         w3 == [w2 EXCEPT !.npcs[n].expression =
                  IF npcs[n].isGood THEN goodbyeEmotes[1] ELSE goodbyeEmotes[2]]
     IN Commit(IF ~npcs[n].exists THEN removeSystem(World, k)
               ELSE IF w1.systems[k].t < GoodbyeDelayDuration THEN w1
               ELSE addSystem(w3, Key("goodbyeEmote", n), n))

goodbyeEmoteSystem(n, dt) ==
  /\ Registered("goodbyeEmote", n)
  /\ LET k == Key("goodbyeEmote", n)
         w1 == addElapsed(World, k, dt)
         w2 == [removeSystem(w1, k) EXCEPT !.npcs[n].tween = "toOrigin"]
     IN Commit(IF ~npcs[n].exists THEN removeSystem(World, k)
               ELSE IF w1.systems[k].t < GoodbyeEmoteDuration THEN w1
               ELSE startReturnCheckSystem(w2, n))

thankEmoteSystem(n, dt) ==
  /\ Registered("thankEmote", n)
  /\ LET k == Key("thankEmote", n)
         w1 == addElapsed(World, k, dt)
     IN Commit(IF ~npcs[n].exists THEN removeSystem(World, k)
               ELSE IF w1.systems[k].t < ThankEmoteDuration THEN w1
               ELSE removeSystem(w1, k))

\* the walk back has ended: the branch of checkReturn that removes the NPC
despawn(w, n) ==
  LET w1 == cleanupNPCSystems(w, n)
      w2 == [w1 EXCEPT !.npcs[n].item = NoItem, !.npcs[n].itemAttached = FALSE]
      w3 == removeNPCFromList(w2, n)
  IN removeSystem([w3 EXCEPT !.npcs[n] = removeNPCEntity(w3.npcs[n])],
                  <<"checkReturn", w.npcs[n].npcId>>)

\* the system of startReturnCheckSystem
checkReturnSystem(n) ==
  /\ Registered("checkReturn", n)
  /\ Commit(IF ~npcs[n].exists
            THEN removeSystem(cleanupNPCSystems(World, n), Key("checkReturn", n))
            ELSE IF ~npcs[n].atOrigin THEN World
            ELSE despawn(World, n))

----------------------------------------------------------------------------
(* The player *)

\* the pointer handler of the NPC's collider
NoEntity == -1

\* what hasItemInRightHand can return as itemEntity: the loop returns the first
\* candidate it meets, in the engine's order; NoEntity when hasItem is false
FoundItems(w) == IF HeldCandidates(w) = {} THEN {NoEntity} ELSE HeldCandidates(w)

\* handleNPCInteraction counting an empty hand as a wrong item
interactionCountingEmpty(w, n, h) ==
  IF h # NoEntity THEN giveItemToNPC(w, n, h)
  ELSE incrementBadDelivered(showUIMessage(w, "You should have something to give"))

\* the body of handleNPCInteraction, h being what hasItemInRightHand returned
interaction(w, n, h) ==
  IF h # NoEntity THEN giveItemToNPC(w, n, h)
  ELSE showUIMessage(w, "You should have something to give")

handleNPCInteraction(n, h) ==
  /\ npcs[n].interactionHandler
  /\ npcs[n].collider
  /\ h \in FoundItems(World)
  /\ Commit(interaction(World, n, h))

\* a station hands the player an item: spawnResultItem
\* a spawnResultItem that does not look into the player's hand
spawnResultItemAnyway(w, type) == [w EXCEPT !.playerItem = type]

spawnResultItem(w, type) ==
  IF HeldCandidates(w) # {}
  THEN showUIMessage(w, "You already have something in your right hand")
  ELSE [w EXCEPT !.playerItem = type]

takeItem(type) ==
  /\ ~isGameOver
  /\ Commit(spawnResultItem(World, type))

\* the discard station: removeRightHandItem
discardItem(h) ==
  /\ ~isGameOver
  /\ h \in HeldCandidates(World)
  /\ Commit(removeItemEntity(World, h))

\* every system has run since the last removeAllNPCs: the systems of the NPCs that
\* are gone have removed themselves
Settled == \A k \in DOMAIN systems : npcs[systems[k].owner].exists

\* the Play Again button.  It is drawn after the frame in which the game ended,
\* and every system runs in every frame.
playAgain ==
  /\ isGameOver
  /\ Settled
  /\ Commit(resetGame(World))

----------------------------------------------------------------------------
\* The scene after construction, and the scene of a game that has gone on to one
\* delivery short of either end at a moment when every NPC has left (the ids and
\* the elapsed time of the spawner then count from that moment).
StartScores == {0, DELIVERED_TO_WIN - 1}

Init ==
  /\ spots = [s \in SpotIds |-> FALSE]
  /\ npcIndex = 0
  /\ elapsedTime = 0
  /\ isSpawning = TRUE
  /\ activeNPCs = <<>>
  /\ npcs = [n \in Slots |-> NoNPC]
  /\ systems = [k \in {} |-> [owner |-> 0, t |-> 0]]
  /\ \E score \in StartScores : goodDelivered = score /\ badDelivered = score
  /\ isGameOver = FALSE
  /\ gameFinishedEntity = "none"
  /\ playerItem = NoItem
  /\ strayItem = FALSE
  /\ calls = 0

\* one invocation of a system that every NPC has
npcSystem(n) ==
  \/ tweenSystem(n)
  \/ checkArrivalSystem(n)
  \/ \E emote \in ArrivalDraws : arrivalEmoteSystem(n, DtMs, emote)
  \/ \E waitTime \in WaitDraws : arrivalEmoteEndSystem(n, DtMs, waitTime)
  \/ waitTimerSystem(n, DtMs)
  \/ goodbyeEmoteDelaySystem(n, DtMs)
  \/ goodbyeEmoteSystem(n, DtMs)
  \/ checkReturnSystem(n)

player ==
  \/ \E n \in Slots, h \in {NoEntity} \cup (0..MaxNPCs) : handleNPCInteraction(n, h)
  \/ \E type \in HeldTypes : takeItem(type)
  \/ \E h \in 0..MaxNPCs : discardItem(h)
  \/ playAgain

\* the scene as index.ts wires it, with a player; no NPC waves on its way in
Next ==
  \/ spawnerSystem(DtMs, MaxLive, BOOLEAN, {FALSE})
  \/ \E n \in Slots : npcSystem(n)
  \/ \E n \in Slots : thankEmoteSystem(n, DtMs)
  \/ player

Spec == Init /\ [][Next]_vars

\* the scene without a player: every spot can fill; the spawner is given frames
\* of one spawn interval
NextCrowd ==
  \/ spawnerSystem(NPC_SPAWN_INTERVAL, MaxNPCs, BOOLEAN, {FALSE})
  \/ \E n \in Slots : npcSystem(n)

SpecCrowd == Init /\ [][NextCrowd]_vars

\* the scene with one NPC at a time, which may wave on its way in
NextSolo ==
  \/ spawnerSystem(DtMs, MaxSolo, BOOLEAN, BOOLEAN)
  \/ \E n \in Slots : npcSystem(n)
  \/ \E n \in Slots : thankEmoteSystem(n, DtMs)
  \/ \E n \in Slots : walkingEmoteSystem(n, DtMs)
  \/ player

SpecSolo == Init /\ [][NextSolo]_vars

\* a public method of the spawner is called by other code than gameFinished and
\* resetGame, while the game is on
call(w) ==
  /\ ~isGameOver
  /\ calls < MaxCalls
  /\ calls' = calls + 1
  /\ \E c \in {Collect(v) : v \in {w}} :
        /\ spots' = c.spots
        /\ npcIndex' = c.npcIndex
        /\ elapsedTime' = c.elapsedTime
        /\ isSpawning' = c.isSpawning
        /\ activeNPCs' = c.activeNPCs
        /\ npcs' = c.npcs
        /\ systems' = c.systems
        /\ UNCHANGED <<goodDelivered, badDelivered, isGameOver, gameFinishedEntity,
                       playerItem, strayItem>>

callStopSpawning == isSpawning /\ call(stopSpawning(World))

callRemoveAllNPCs == call(removeAllNPCs(World))

callRestartSpawning == call(restartSpawning(World))

\* the scene without a player, with such calls
NextAPI ==
  \/ spawnerSystem(DtMs, MaxLive, BOOLEAN, {FALSE})
  \/ \E n \in Slots : npcSystem(n)
  \/ callStopSpawning
  \/ callRemoveAllNPCs
  \/ callRestartSpawning

SpecAPI == Init /\ [][NextAPI]_vars

\* the scene without a player, the spawner given frames of a quarter of its
\* interval
spawnerPace == spawnerSystem(PaceDt, MaxNPCs, BOOLEAN, {FALSE})

NextPace ==
  \/ spawnerPace
  \/ \E n \in Slots : npcSystem(n)

SpecPace == Init /\ [][NextPace]_vars

\* the scene without a player and with one NPC, whose countdown is run with
\* frames of WaitDt and whose wait time is any of WaitRange
npcSystemWait(n) ==
  \/ tweenSystem(n)
  \/ checkArrivalSystem(n)
  \/ \E emote \in ArrivalDraws : arrivalEmoteSystem(n, DtMs, emote)
  \/ \E waitTime \in WaitRange : arrivalEmoteEndSystem(n, DtMs, waitTime)
  \/ waitTimerSystem(n, WaitDt)
  \/ goodbyeEmoteDelaySystem(n, DtMs)
  \/ goodbyeEmoteSystem(n, DtMs)
  \/ checkReturnSystem(n)

NextWait ==
  \/ spawnerSystem(DtMs, MaxSolo, BOOLEAN, {FALSE})
  \/ \E n \in Slots : npcSystemWait(n)

SpecWait == Init /\ [][NextWait]_vars

\* no player, the arrival systems at ArriveDt a frame
npcSystemArrive(n) ==
  \/ tweenSystem(n)
  \/ checkArrivalSystem(n)
  \/ \E emote \in {arrivalEmotes[i] : i \in DOMAIN arrivalEmotes} :
        arrivalEmoteSystem(n, ArriveDt, emote)
  \/ \E waitTime \in WaitDraws : arrivalEmoteEndSystem(n, ArriveDt, waitTime)
  \/ waitTimerSystem(n, DtMs)
  \/ goodbyeEmoteDelaySystem(n, DtMs)
  \/ goodbyeEmoteSystem(n, DtMs)
  \/ checkReturnSystem(n)

NextArrive ==
  \/ spawnerSystem(DtMs, MaxLive, BOOLEAN, {FALSE})
  \/ \E n \in Slots : npcSystemArrive(n)

SpecArrive == Init /\ [][NextArrive]_vars

\* one invocation of any system of closure n
systemOf(n) ==
  \/ npcSystem(n)
  \/ thankEmoteSystem(n, DtMs)
  \/ walkingEmoteSystem(n, DtMs)

\* every frame runs every registered system: the systems of an NPC are not all
\* left out for ever while one of them has something to do
FrameFairness == \A n \in Slots : WF_vars(systemOf(n))

\* the scene with one NPC at a time, every frame running every system
SpecFair == Init /\ [][NextSolo]_vars /\ FrameFairness

\* the same, with calls of stopSpawning
NextStop ==
  \/ NextSolo
  \/ callStopSpawning

SpecStop == Init /\ [][NextStop]_vars /\ FrameFairness

\* the scene with one NPC at a time, every frame running every system, with
\* calls of removeAllNPCs
NextRemove ==
  \/ NextSolo
  \/ callRemoveAllNPCs

SpecRemove == Init /\ [][NextRemove]_vars /\ FrameFairness

----------------------------------------------------------------------------
(* Properties *)

\* C1: whatever spawner ticks, expiries and calls of removeAllNPCs, stopSpawning
\* and restartSpawning have happened, every spot has at most one live NPC bound to
\* it that has not yet started its exit sequence.
C1_OnePerSpot ==
  \A s \in SpotIds :
    Cardinality({n \in Slots : /\ npcs[n].exists
                               /\ ~npcs[n].exiting
                               /\ npcs[n].spotId = s}) <= 1

\* C2: the occupied flag of a spot is true exactly when a live NPC that has not yet
\* started its exit sequence is bound to the spot.
C2_FlagIffBound ==
  \A s \in SpotIds :
    spots[s] <=> \E n \in Slots : /\ npcs[n].exists
                                  /\ ~npcs[n].exiting
                                  /\ npcs[n].spotId = s

\* C3: a delivery a waiting NPC accepts adds one to the good counter and nothing to
\* the bad one when the item is the potion for an elf or the axe for an orc; any
\* other item, the other race's included, adds one to the bad counter and nothing
\* to the good one.
C3_DeliveryScoresByRace ==
  \A n \in Slots, type \in ItemType :
    ( /\ npcs[n].exists
      /\ npcs[n].interactionHandler /\ npcs[n].collider
      /\ ~isGameOver
      /\ ~npcs[n].noLongerAcceptsItems /\ ~npcs[n].hasReceivedItem ) =>
      LET w == giveItemToNPC([World EXCEPT !.playerItem = type], n, 0)
          expected == \/ npcs[n].isElf /\ type = "potion"
                      \/ ~npcs[n].isElf /\ type = "axe"
      IN /\ w.goodDelivered = goodDelivered + (IF expected THEN 1 ELSE 0)
         /\ w.badDelivered = badDelivered + (IF expected THEN 0 ELSE 1)

\* an orc took the elves' potion, and the bad counter has it
C3_Witness ==
  \E n \in Slots : /\ npcs[n].exists /\ ~npcs[n].isElf
                   /\ npcs[n].hasReceivedItem /\ npcs[n].item = "potion"
                   /\ npcs[n].scored = 1 /\ npcs[n].exiting
                   /\ badDelivered >= 1

\* C4: no NPC changes the scoreboard more than once; an interaction with an NPC
\* whose wait has expired changes no counter; the wait timer of an NPC that took
\* an item changes no counter.
C4_ExpiryOrDelivery ==
  /\ \A n \in Slots : npcs[n].scored <= 1
  /\ \A n \in Slots, h \in HeldCandidates(World) :
       npcs[n].noLongerAcceptsItems =>
         LET w == giveItemToNPC(World, n, h)
         IN w.goodDelivered = goodDelivered /\ w.badDelivered = badDelivered
  /\ \A n \in Slots :
       (npcs[n].hasReceivedItem /\ Registered("waitTimer", n)) =>
         LET w == waitTimerCallback(World, n, DtMs)
         IN w.goodDelivered = goodDelivered /\ w.badDelivered = badDelivered

\* one NPC's wait has expired and the player stands there with an item; another
\* NPC took an item and its wait timer has not run since
C4_Witness ==
  \E n, m \in Slots :
    /\ npcs[n].exists /\ npcs[n].noLongerAcceptsItems /\ npcs[n].scored = 1
    /\ playerItem # NoItem
    /\ npcs[m].exists /\ npcs[m].hasReceivedItem /\ npcs[m].scored = 1
    /\ Registered("waitTimer", m)

\* C5: an NPC that waits and has been given nothing has changed no counter; a tick
\* of its wait timer before the end of its wait changes none, and the tick that
\* ends its wait adds one to the bad counter, nothing to the good one, and is the
\* last tick of the timer.
C5_ExpiryScoresBad ==
  \A n \in Slots :
    (npcs[n].exists /\ ~npcs[n].hasReceivedItem /\ Registered("waitTimer", n)) =>
      LET k == Key("waitTimer", n)
          w == waitTimerCallback(World, n, DtMs)
      IN /\ npcs[n].scored = 0
         /\ IF systems[k].t + DtMs < npcs[n].actualWaitTime
            THEN /\ w.goodDelivered = goodDelivered
                 /\ w.badDelivered = badDelivered
                 /\ k \in DOMAIN w.systems
            ELSE /\ w.goodDelivered = goodDelivered
                 /\ w.badDelivered = badDelivered + 1
                 /\ w.npcs[n].scored = 1
                 /\ w.npcs[n].noLongerAcceptsItems
                 /\ k \notin DOMAIN w.systems

\* the wait of an NPC that was given nothing has ended: it is on its way out and
\* the bad counter has it
C5_Witness ==
  \E n \in Slots : /\ npcs[n].exists /\ npcs[n].exiting
                   /\ npcs[n].noLongerAcceptsItems /\ ~npcs[n].hasReceivedItem
                   /\ npcs[n].scored = 1
                   /\ ~Registered("waitTimer", n)
                   /\ badDelivered >= 1

\* C6: from the step that starts its exit sequence an NPC does not hold its spot:
\* the flag of the spot is down, or up for another NPC that has bound to it.
C6_SpotFreedAtExit ==
  \A n \in Slots :
    (npcs[n].exists /\ npcs[n].exiting /\ spots[npcs[n].spotId]) =>
      \E m \in Slots \ {n} : /\ npcs[m].exists
                             /\ ~npcs[m].exiting
                             /\ npcs[m].spotId = npcs[n].spotId

\* an NPC walks out while the next one is bound to the spot it had
C6_Witness ==
  \E n \in Slots, m \in Slots :
    /\ n # m
    /\ npcs[n].exists /\ npcs[n].exiting /\ npcs[n].tween = "toOrigin"
    /\ npcs[m].exists /\ ~npcs[m].exiting /\ npcs[m].spotId = npcs[n].spotId
    /\ spots[npcs[n].spotId]

\* C7: a step taken while every spot is occupied creates no NPC, and leaves the
\* spawn index as it is.
C7_NoSpawnWhenFull ==
  [][(\A s \in SpotIds : spots[s]) =>
       /\ npcIndex' = npcIndex
       /\ \A n \in Slots : npcs'[n].used => npcs[n].used
       /\ Len(activeNPCs') <= Len(activeNPCs)]_vars

\* the spawner has run with its interval elapsed and all three spots taken by
\* NPCs that are still there
C7_Witness ==
  /\ \A s \in SpotIds : spots[s] /\ \E n \in Slots : /\ npcs[n].exists
                                                     /\ ~npcs[n].exiting
                                                     /\ npcs[n].spotId = s
  /\ npcIndex = Cardinality(SpotIds)
  /\ elapsedTime > npcIndex * NPC_SPAWN_INTERVAL

\* C8: removeAllNPCs leaves every spot free, and an NPC whose entity is gone
\* changes no counter any more, neither by a timer of its nor by an interaction
\* with what is left of it, a restart of the game in between or not.
C8_RemovedNeverScore ==
  /\ \A s \in SpotIds : ~removeAllNPCs(World).spots[s]
  /\ \A n \in Slots :
       (npcs[n].used /\ ~npcs[n].exists /\ Registered("waitTimer", n)) =>
         LET w == waitTimerCallback(World, n, DtMs)
         IN w.goodDelivered = goodDelivered /\ w.badDelivered = badDelivered
  /\ \A n \in Slots, h \in HeldCandidates(World) :
       ( /\ npcs[n].used /\ ~npcs[n].exists
         /\ npcs[n].interactionHandler /\ npcs[n].collider ) =>
         LET w == giveItemToNPC(World, n, h)
         IN w.goodDelivered = goodDelivered /\ w.badDelivered = badDelivered

\* C9: the step of checkReturn that removes an NPC that has walked back leaves no
\* system registered under a name of that NPC's id.
C9_NoTimerAfterDespawn ==
  \A n \in Slots :
    (Registered("checkReturn", n) /\ npcs[n].exists /\ npcs[n].atOrigin) =>
      \A name \in SystemNames :
        <<name, npcs[n].npcId>> \notin DOMAIN despawn(World, n).systems

\* the one NPC of the game came, waited, walked back and is gone, and nothing of
\* it is left
C9_Witness ==
  /\ npcIndex = 1
  /\ \A n \in Slots : ~npcs[n].used
  /\ DOMAIN systems = {}
  /\ ~isGameOver
  /\ goodDelivered + badDelivered = 1

\* C10: a delivery of the expected item activates the confetti of the NPC's spot
\* and sends the NPC off with the pleased goodbye; a delivery of another item and
\* the end of the wait activate no confetti and send it off with the unimpressed
\* goodbye.
C10_OutcomeEffects ==
  /\ \A n \in Slots, h \in HeldCandidates(World) :
       ( /\ npcs[n].exists
         /\ npcs[n].interactionHandler /\ npcs[n].collider
         /\ ~isGameOver
         /\ ~npcs[n].noLongerAcceptsItems /\ ~npcs[n].hasReceivedItem ) =>
         LET w == giveItemToNPC(World, n, h)
             correct == \/ npcs[n].isElf /\ heldItemId(World, h) = "potion"
                        \/ ~npcs[n].isElf /\ heldItemId(World, h) = "axe"
         IN /\ w.npcs[n].exiting
            /\ w.npcs[n].isGood = correct
            /\ w.npcs[n].confetti = IF correct THEN npcs[n].spotId ELSE NoSpot
  /\ \A n \in Slots :
       ( /\ npcs[n].exists /\ ~npcs[n].hasReceivedItem
         /\ Registered("waitTimer", n)
         /\ systems[Key("waitTimer", n)].t + DtMs >= npcs[n].actualWaitTime ) =>
         LET w == waitTimerCallback(World, n, DtMs)
         IN /\ w.npcs[n].exiting
            /\ ~w.npcs[n].isGood
            /\ w.npcs[n].confetti = NoSpot

\* C11: with every frame running every system, an NPC that exists is eventually
\* gone (despawned at the end of its walk back, or removed with all the others),
\* and an NPC whose outcome is decided is eventually on its walk back and then gone.
C11_NoStuckNPC ==
  \A n \in Slots :
    /\ npcs[n].exists ~> ~npcs[n].exists
    /\ (npcs[n].exists /\ (npcs[n].hasReceivedItem \/ npcs[n].noLongerAcceptsItems))
         ~> (~npcs[n].exists \/ npcs[n].tween = "toOrigin")

\* an NPC was given what it expected, walked back and is gone with its item
C11_Witness ==
  /\ npcIndex >= 1
  /\ \A n \in Slots : ~npcs[n].used
  /\ DOMAIN systems = {}
  /\ goodDelivered = 1 /\ badDelivered = 0
  /\ ~isGameOver /\ ~strayItem

\* C12: an interaction with an NPC that has its item changes nothing: no counter,
\* no item of the NPC's or the player's, no system, no spot, and it shows nothing.
C12_FirstTriggerWins ==
  \A n \in Slots, h \in HeldCandidates(World) :
    (npcs[n].used /\ npcs[n].hasReceivedItem) => interaction(World, n, h) = World

\* the NPC has its item, its handler is still there and the player holds the next
\* item
C12_Witness ==
  \E n \in Slots : /\ npcs[n].exists /\ npcs[n].hasReceivedItem
                   /\ npcs[n].item # NoItem /\ npcs[n].exiting
                   /\ npcs[n].interactionHandler /\ npcs[n].collider
                   /\ playerItem # NoItem

\* C13: an interaction with a waiting NPC while the player holds nothing shows the
\* notice and changes nothing else: no NPC, no spot, no counter, no system (the
\* wait timer and its elapsed time included).
C13_EmptyHanded ==
  \A n \in Slots, h \in FoundItems(World) :
    ( /\ npcs[n].exists
      /\ npcs[n].interactionHandler /\ npcs[n].collider
      /\ ~npcs[n].hasReceivedItem /\ ~npcs[n].noLongerAcceptsItems
      /\ playerItem = NoItem ) =>
      interaction(World, n, h) =
        [World EXCEPT !.message = "You should have something to give"]

\* an NPC waits with its timer under way, and the player holds nothing
C13_Witness ==
  \E n \in Slots : /\ npcs[n].exists
                   /\ npcs[n].interactionHandler /\ npcs[n].collider
                   /\ ~npcs[n].hasReceivedItem /\ ~npcs[n].noLongerAcceptsItems
                   /\ Registered("waitTimer", n)
                   /\ systems[Key("waitTimer", n)].t > 0
                   /\ playerItem = NoItem

\* C14: the step in which a waiting NPC accepts a delivery destroys the item the
\* player held, the expected one or not: after it the player holds nothing.
C14_ItemConsumed ==
  \A n \in Slots, h \in HeldCandidates(World) :
    ( /\ npcs[n].exists
      /\ npcs[n].interactionHandler /\ npcs[n].collider
      /\ ~isGameOver
      /\ ~npcs[n].hasReceivedItem /\ ~npcs[n].noLongerAcceptsItems ) =>
      LET w == interaction(World, n, h)
      IN /\ w.npcs[n].hasReceivedItem
         /\ w.playerItem = NoItem
         /\ HeldCandidates(w) = {}

\* an NPC has just taken an item that it did not expect, and the player's hand is
\* empty
C14_Witness ==
  \E n \in Slots : /\ npcs[n].exists /\ npcs[n].hasReceivedItem
                   /\ npcs[n].item # NoItem
                   /\ npcs[n].item # expectedItemType(npcs[n].isElf)
                   /\ Registered("goodbyeEmoteDelay", n)
                   /\ systems[Key("goodbyeEmoteDelay", n)].t = 0
                   /\ playerItem = NoItem

\* C15: the pointer handler of an NPC is registered only while the NPC waits: the
\* NPC exists, stands at its spot after its arrival emote, and has neither been
\* given an item nor run out of time.
C15_TriggerOnlyWhileWaiting ==
  \A n \in Slots :
    (npcs[n].interactionHandler /\ npcs[n].collider) =>
      /\ npcs[n].exists
      /\ npcs[n].atSpot /\ npcs[n].emoteActivated /\ npcs[n].planeVisible
      /\ ~npcs[n].hasReceivedItem
      /\ ~npcs[n].noLongerAcceptsItems

\* C16: a spawner tick creates at most one NPC; it creates the NPC with spawn
\* index k only if spawning is enabled, a spot is free and the elapsed time, the
\* tick's own frame included, is at least k x spawnInterval; the tick at index 0
\* creates the first NPC; and the index goes up, by one, only in a step that
\* creates an NPC.
C16_SpawnerTick ==
  [][LET created == {n \in Slots : ~npcs[n].used /\ npcs'[n].used}
     IN /\ Cardinality(created) <= 1
        /\ \A n \in created :
              /\ isSpawning
              /\ getFreeSpot(World) # NoSpot
              /\ npcs'[n].npcId = npcIndex
              /\ npcs'[n].spotId = getFreeSpot(World)
              /\ elapsedTime' >= npcIndex * NPC_SPAWN_INTERVAL
        /\ npcIndex' > npcIndex => created # {} /\ npcIndex' = npcIndex + 1
        /\ (spawnerPace /\ npcIndex = 0) => created # {}]_vars

\* the NPC with index 1 has just been created, by the tick that brought the
\* elapsed time to one spawnInterval, after ticks that were too early for it
C16_Witness ==
  /\ npcIndex = 2
  /\ elapsedTime = NPC_SPAWN_INTERVAL
  /\ \E n \in Slots : npcs[n].exists /\ npcs[n].npcId = 1 /\ npcs[n].tween = "toSpot"

\* C17: the spawner does not catch up on spawn slots that fell due while no spot
\* was free: NPCs are created at least one spawnInterval of elapsed time apart,
\* so that two ticks in a row, a quarter of the interval apart, never both create
\* an NPC.
C17_NoCatchUp ==
  \A n1, n2 \in Slots :
     (~npcs[n1].used /\ ~npcs[n2].used /\ n1 # n2)
        => LET w1 == startSpawning(World, PaceDt, n1, FALSE, FALSE)
           IN ~(spawnDue(World, PaceDt) /\ spawnDue(w1, PaceDt))

C19_RemoveAllNPCs ==
  [][/\ callRemoveAllNPCs =>
          /\ \A s \in SpotIds : ~spots'[s]
          /\ \A n \in Slots : InList(activeNPCs, n) =>
                /\ npcs[n].exists
                /\ ~npcs'[n].exists
                /\ npcs'[n].used =>
                      /\ npcs'[n].tween = "none"
                      /\ npcs'[n].expression = npcs[n].expression
                      /\ npcs'[n].exiting = npcs[n].exiting
          /\ activeNPCs' = <<>>
          /\ npcIndex' = npcIndex
          /\ elapsedTime' = elapsedTime
          /\ isSpawning' = isSpawning
     /\ \A n \in Slots :
          (npcs[n].used /\ ~npcs[n].exists /\ npcs'[n].used) =>
             /\ ~npcs'[n].exists
             /\ npcs'[n].tween = "none"
             /\ npcs'[n].expression = npcs[n].expression
             /\ npcs'[n].exiting = npcs[n].exiting]_vars

\* removeAllNPCs has been called while an NPC was waiting at its spot: its entity
\* is gone without sendNPCBack having run, its countdown is still registered
C19_Witness ==
  /\ calls >= 1
  /\ activeNPCs = <<>>
  /\ \A s \in SpotIds : ~spots[s]
  /\ npcIndex >= 1
  /\ \E n \in Slots :
        /\ npcs[n].used
        /\ ~npcs[n].exists
        /\ ~npcs[n].exiting
        /\ \E k \in DOMAIN systems : systems[k].owner = n /\ k[1] = "waitTimer"

\* C20: while isSpawning is false a spawner tick, whatever its frame delta,
\* changes nothing, and no step that leaves the flag false changes the spawn
\* index or the elapsed time, creates an NPC or marks a spot occupied; the NPCs
\* that exist go on: with every system run in every frame, each of them leaves
\* and is destroyed, or is removed, whether or not spawning is started again.
C20_StoppedSpawner ==
  /\ [][~isSpawning =>
          /\ \A dt \in {PaceDt, NPC_SPAWN_INTERVAL, DtMs}, n \in Slots,
                elf \in BOOLEAN, wave \in BOOLEAN :
                startSpawning(World, dt, n, elf, wave) = World
          /\ ~isSpawning' =>
                /\ npcIndex' = npcIndex
                /\ elapsedTime' = elapsedTime
                /\ \A n \in Slots : npcs'[n].used => npcs[n].used
                /\ \A s \in SpotIds : spots'[s] => spots[s]]_vars
  /\ \A n \in Slots : (~isSpawning /\ npcs[n].exists) ~> ~npcs[n].exists

\* spawning was stopped while the game was on and an NPC was there with two spots
\* free and a spawn due; the NPC has since run out of patience and walks out,
\* and no other NPC has come
C20_Witness ==
  /\ ~isSpawning
  /\ ~isGameOver
  /\ calls >= 1
  /\ npcIndex = 1
  /\ \A s \in SpotIds : ~spots[s]
  /\ \E n \in Slots :
        /\ npcs[n].exists
        /\ npcs[n].npcId = 0
        /\ npcs[n].noLongerAcceptsItems
        /\ npcs[n].tween = "toOrigin"

\* C21: the game is over exactly while a counter is at its threshold: it shows
\* the win model exactly when the good counter is at DELIVERED_TO_WIN and the
\* lose model exactly when the bad counter is at DELIVERED_TO_LOSE; the step
\* that ends the game stops spawning and removes every NPC; and the game-over
\* flag is cleared by the Play Again button (resetGame) only.
C21_GameEnd ==
  /\ [](/\ isGameOver <=> (\/ goodDelivered >= DELIVERED_TO_WIN
                           \/ badDelivered >= DELIVERED_TO_LOSE)
        /\ gameFinishedEntity = "win" <=> goodDelivered = DELIVERED_TO_WIN
        /\ gameFinishedEntity = "lose" <=> badDelivered = DELIVERED_TO_LOSE
        /\ goodDelivered <= DELIVERED_TO_WIN
        /\ badDelivered <= DELIVERED_TO_LOSE)
  /\ [][/\ (~isGameOver /\ isGameOver') =>
             /\ ~isSpawning'
             /\ activeNPCs' = <<>>
             /\ \A n \in Slots : ~npcs'[n].exists
             /\ \/ goodDelivered' = goodDelivered + 1 /\ badDelivered' = badDelivered
                \/ badDelivered' = badDelivered + 1 /\ goodDelivered' = goodDelivered
        /\ (isGameOver /\ isGameOver') =>
             /\ goodDelivered' = goodDelivered
             /\ badDelivered' = badDelivered
             /\ gameFinishedEntity' = gameFinishedEntity
        /\ (isGameOver /\ ~isGameOver') => playAgain]_vars

\* the fifth good delivery has just ended the game, with NPCs in the scene
C21_Witness ==
  /\ isGameOver
  /\ gameFinishedEntity = "win"
  /\ goodDelivered = DELIVERED_TO_WIN
  /\ badDelivered < DELIVERED_TO_LOSE
  /\ ~isSpawning
  /\ npcIndex >= 2
  /\ \E n \in Slots : npcs[n].used /\ npcs[n].hasReceivedItem /\ ~npcs[n].exists

\* C22: the wait time of every countdown is within NPC_WAIT_TIME plus or minus
\* NPC_WAIT_TIME_VARIATION; a countdown that has not fired has accumulated less
\* than its wait time; it fires (the bad counter goes up) only on a tick that
\* brings the accumulated time from below the wait time to at least the wait
\* time, hence to at least the lower bound; and every such tick fires it.
C22_Deadline ==
  /\ [](\A n \in Slots : Registered("waitTimer", n) =>
          /\ npcs[n].actualWaitTime >= (NPC_WAIT_TIME - NPC_WAIT_TIME_VARIATION) * 1000
          /\ npcs[n].actualWaitTime <= (NPC_WAIT_TIME + NPC_WAIT_TIME_VARIATION) * 1000
          /\ systems[Key("waitTimer", n)].t < npcs[n].actualWaitTime)
  /\ [][/\ badDelivered' # badDelivered =>
             \E n \in Slots :
                /\ Registered("waitTimer", n)
                /\ waitTimerSystem(n, WaitDt)
                /\ systems[Key("waitTimer", n)].t + WaitDt >= npcs[n].actualWaitTime
                /\ systems[Key("waitTimer", n)].t + WaitDt >=
                      (NPC_WAIT_TIME - NPC_WAIT_TIME_VARIATION) * 1000
        /\ \A n \in Slots :
             (/\ waitTimerSystem(n, WaitDt)
              /\ npcs[n].exists
              /\ ~npcs[n].hasReceivedItem
              /\ systems[Key("waitTimer", n)].t + WaitDt >= npcs[n].actualWaitTime)
               => badDelivered' = badDelivered + 1]_vars

\* a countdown with a wait time that is no multiple of the frame has fired on
\* the first tick past it: the NPC is leaving, the game goes on
C22_Witness ==
  \E n \in Slots :
     /\ npcs[n].exists
     /\ npcs[n].noLongerAcceptsItems
     /\ npcs[n].actualWaitTime > NPC_WAIT_TIME * 1000
     /\ npcs[n].actualWaitTime < (NPC_WAIT_TIME + NPC_WAIT_TIME_VARIATION) * 1000
     /\ badDelivered = 1

\* C23: a step of a system of one NPC, unless it ends the game, leaves every
\* other NPC as it is (entity, latches, position) and leaves every system of
\* every other NPC registered with its accumulated time.
C23_NoInterference ==
  [][\A n \in Slots :
       (npcSystem(n) /\ ~(isGameOver' /\ ~isGameOver)) =>
          \A m \in Slots \ {n} :
             /\ npcs'[m] = npcs[m]
             /\ \A k \in DOMAIN systems :
                  systems[k].owner = m =>
                     k \in DOMAIN systems' /\ systems'[k] = systems[k]]_vars

\* C24: no two NPCs that still have an entity or a registered system have the
\* same id.
C24_UniqueIds ==
  \A n, m \in Slots :
     (/\ n # m
      /\ npcs[n].exists \/ \E k \in DOMAIN systems : systems[k].owner = n
      /\ npcs[m].exists \/ \E k \in DOMAIN systems : systems[k].owner = m)
       => npcs[n].npcId # npcs[m].npcId

\* C25: a system of an NPC whose entity has been removed, when it runs, removes
\* itself, adds and advances no system, and changes no spot, no counter and no
\* NPC; with every system run in every frame, eventually no system of the
\* removed NPC is registered.
C25_StaleTimers ==
  /\ [][\A n \in Slots :
          (npcs[n].used /\ ~npcs[n].exists) =>
             /\ systemOf(n) =>
                  /\ spots' = spots
                  /\ goodDelivered' = goodDelivered
                  /\ badDelivered' = badDelivered
                  /\ isGameOver' = isGameOver
                  /\ \A m \in Slots : npcs'[m] = npcs[m] \/ (m = n /\ npcs'[m] = NoNPC)
                  /\ DOMAIN systems' \subseteq DOMAIN systems
                  /\ DOMAIN systems' # DOMAIN systems
                  /\ \A k \in DOMAIN systems' : systems'[k] = systems[k]
             /\ waitTimerSystem(n, DtMs) => Key("waitTimer", n) \notin DOMAIN systems'
             /\ goodbyeEmoteDelaySystem(n, DtMs) =>
                  Key("goodbyeEmoteDelay", n) \notin DOMAIN systems'
             /\ goodbyeEmoteSystem(n, DtMs) => Key("goodbyeEmote", n) \notin DOMAIN systems'
             /\ checkReturnSystem(n) => Key("checkReturn", n) \notin DOMAIN systems'
             /\ checkArrivalSystem(n) => Key("checkArrival", n) \notin DOMAIN systems'
             /\ walkingEmoteSystem(n, DtMs) =>
                  Key("walkingEmote", n) \notin DOMAIN systems']_vars
  /\ \A n \in Slots :
       (npcs[n].used /\ ~npcs[n].exists)
          ~> ~(npcs[n].used /\ ~npcs[n].exists
                 /\ \E k \in DOMAIN systems : systems[k].owner = n)

\* removeAllNPCs was called while an NPC was leaving: its entity is gone, its
\* checkReturn system is still registered
C25_Witness ==
  /\ calls >= 1
  /\ ~isGameOver
  /\ \E n \in Slots :
        /\ npcs[n].used
        /\ ~npcs[n].exists
        /\ npcs[n].exiting
        /\ Registered("checkReturn", n)

\* C26: no NPC gets past the existence check of sendNPCBack twice; and a spot
\* goes from occupied to free only in a step that ends the game or in which an
\* NPC bound to that spot, present and not yet leaving, starts its exit: an NPC
\* that is walking out frees no spot.
C26_ExitOnce ==
  /\ [](\A n \in Slots : npcs[n].exits <= 1)
  /\ [][\A s \in SpotIds :
          (spots[s] /\ ~spots'[s]) =>
             \/ isGameOver' /\ ~isGameOver
             \/ \E n \in Slots :
                  /\ npcs[n].spotId = s
                  /\ npcs[n].exists
                  /\ ~npcs[n].exiting
                  /\ npcs'[n].exiting
                  /\ npcs'[n].exits = 1]_vars

\* an NPC is walking out while its successor waits at the spot it has left
C26_Witness ==
  \E n, m \in Slots :
     /\ npcs[n].exists /\ npcs[n].exiting /\ npcs[n].tween = "toOrigin"
     /\ npcs[m].exists /\ ~npcs[m].exiting /\ npcs[m].atSpot
     /\ npcs[m].interactionHandler
     /\ npcs[m].spotId = npcs[n].spotId
     /\ spots[npcs[m].spotId]

\* C27: an item created for an NPC exists only once that NPC has accepted a
\* delivery, is of the type of an item the player was holding in the step that
\* created it, and does not exist once the entity of its NPC is gone, whether
\* the closure of that NPC is still there or not.
C27_ItemWithNPC ==
  /\ [](/\ ~strayItem
        /\ \A n \in Slots :
             npcs[n].item # NoItem => npcs[n].hasReceivedItem /\ npcs[n].exists)
  /\ [][\A n \in Slots :
          (npcs'[n].item # NoItem /\ npcs[n].item = NoItem) =>
             \E h \in HeldCandidates(World) : npcs'[n].item = heldItemId(World, h)]_vars

\* C28: while the game-over flag is set there is no item: none in the player's
\* hand, none created for an NPC, attached or not.
C28_NoItemWhenOver ==
  isGameOver =>
     /\ playerItem = NoItem
     /\ ~strayItem
     /\ \A n \in Slots : npcs[n].item = NoItem

----------------------------------------------------------------------------
(* The spot registry driven with any spot id.  startSpawning only passes the spot
   getFreeSpot returned and sendNPCBack the spot of its NPC; here createWalkingNPC
   and freeSpot are reached with every id of NPC_SPOTS, occupied or free, while
   the systems of the scene keep ticking. *)

callCreateWalkingNPC(spotId) ==
  /\ Cardinality(Live) < MaxLive
  /\ \E n \in Slots, elf \in BOOLEAN :
        /\ NextSlot(n)
        /\ call(createWalkingNPC(World, n, npcIndex, spotId, elf, FALSE))

callFreeSpot(spotId) == call(freeSpot(World, spotId))

NextSpots ==
  \/ spawnerSystem(DtMs, MaxLive, BOOLEAN, {FALSE})
  \/ \E n \in Slots : npcSystem(n)
  \/ \E spotId \in SpotIds : callCreateWalkingNPC(spotId)
  \/ \E spotId \in SpotIds : callFreeSpot(spotId)

SpecSpots == Init /\ [][NextSpots]_vars

\* C29: when the removal of the player's item fails in a click on a waiting NPC
\* (removeEntity throws, directly and in removeRightHandItem), the click sets a
\* notice and changes nothing else: no latch, no counter, no item, no NPC.
C29_RemovalFailureAborts ==
  \A n \in Slots, h \in HeldCandidates(World) :
     (/\ ~isGameOver
      /\ npcs[n].exists
      /\ npcs[n].interactionHandler
      /\ npcs[n].collider
      /\ ~npcs[n].hasReceivedItem
      /\ ~npcs[n].noLongerAcceptsItems)
       => LET w == interaction([World EXCEPT !.removeFails = TRUE], n, h)
          IN /\ w.message \notin {NoMessage, ""}
             /\ [w EXCEPT !.message = NoMessage, !.removeFails = FALSE] = World

\* C30: occupySpot on an occupied spot returns false and changes nothing, and
\* the createWalkingNPC that made the attempt creates no NPC, registers no system
\* and throws nothing; freeSpot on a free spot leaves every spot as it was, that
\* spot free, and throws nothing; the exit of an NPC whose spot was already free
\* leaves it free; after either call the spawner is as active as before.
C30_SpotAnomalies ==
  /\ [](\A spotId \in SpotIds :
          /\ spots[spotId] =>
               /\ ~occupySpotOk(World, spotId)
               /\ occupySpot(World, spotId) = World
               /\ \A n \in Slots, elf \in BOOLEAN :
                     createWalkingNPC(World, n, npcIndex, spotId, elf, FALSE) = World
          /\ ~spots[spotId] => freeSpot(World, spotId) = World)
  /\ [][\A spotId \in SpotIds :
          /\ (callCreateWalkingNPC(spotId) /\ spots[spotId]) =>
               UNCHANGED <<spots, npcs, activeNPCs, systems, npcIndex,
                           elapsedTime, isSpawning>>
          /\ (callFreeSpot(spotId) /\ ~spots[spotId]) =>
               /\ ~spots'[spotId]
               /\ UNCHANGED <<spots, npcs, activeNPCs, systems, npcIndex,
                              elapsedTime, isSpawning>>]_vars
  /\ [][\A n \in Slots :
          npcs'[n].exits > npcs[n].exits => ~spots'[npcs[n].spotId]]_vars

\* one call has been made and it changed nothing: the first NPC still walks to
\* or waits at its spot, which is the only occupied one
C30_Witness ==
  /\ calls = 1
  /\ npcIndex = 1
  /\ \E n \in Slots :
        /\ npcs[n].exists
        /\ npcs[n].exits = 0
        /\ \A m \in Slots \ {n} : ~npcs[m].used
        /\ \A spotId \in SpotIds : spots[spotId] <=> spotId = npcs[n].spotId

\* C31: the handler, the countdown plane and the wait timer of an NPC come in
\* one step, a tick of arrivalEmoteEnd that brings its time to 2000 ms or more;
\* arrivalEmoteEnd starts at 0 in the step that sets the arrival animation, a tick
\* of arrivalEmote that brings its time to the move duration plus 100 ms or
\* more; and arrivalEmote starts at 0 in a step of checkArrival with the NPC at
\* its spot.  Before that step the NPC has none of the three.
C31_ArrivalStaging ==
  /\ [](\A n \in Slots :
          (npcs[n].exists /\ (\/ Registered("checkArrival", n)
                              \/ Registered("arrivalEmote", n)
                              \/ Registered("arrivalEmoteEnd", n))) =>
             /\ ~npcs[n].interactionHandler
             /\ ~npcs[n].planeVisible
             /\ ~Registered("waitTimer", n)
             /\ Registered("arrivalEmote", n) => npcs[n].atSpot
             /\ Registered("arrivalEmoteEnd", n) =>
                  npcs[n].atSpot /\ npcs[n].emoteActivated)
  /\ [][\A n \in Slots :
          LET interactive == ~npcs[n].interactionHandler /\ npcs'[n].interactionHandler
              shown == ~npcs[n].planeVisible /\ npcs'[n].planeVisible
              started == /\ ~Registered("waitTimer", n)
                         /\ <<"waitTimer", npcs[n].npcId>> \in DOMAIN systems'
                         /\ systems'[<<"waitTimer", npcs[n].npcId>>].owner = n
              endKey == <<"arrivalEmoteEnd", npcs[n].npcId>>
              emoteKey == <<"arrivalEmote", npcs[n].npcId>>
          IN /\ (interactive \/ shown \/ started) =>
                  /\ interactive /\ shown /\ started
                  /\ npcs[n].atSpot
                  /\ Registered("arrivalEmoteEnd", n)
                  /\ systems[endKey].t < ArrivalEmoteDuration
                  /\ systems[endKey].t + ArriveDt >= ArrivalEmoteDuration
                  /\ endKey \notin DOMAIN systems'
             /\ (~Registered("arrivalEmoteEnd", n) /\ endKey \in DOMAIN systems'
                 /\ systems'[endKey].owner = n) =>
                  /\ systems'[endKey] = [owner |-> n, t |-> 0]
                  /\ Registered("arrivalEmote", n)
                  /\ systems[emoteKey].t < ArrivalEmoteDelay
                  /\ systems[emoteKey].t + ArriveDt >= ArrivalEmoteDelay
                  /\ npcs'[n].expression \in {arrivalEmotes[i] : i \in DOMAIN arrivalEmotes}
             /\ (~Registered("arrivalEmote", n) /\ emoteKey \in DOMAIN systems'
                 /\ systems'[emoteKey].owner = n) =>
                  /\ systems'[emoteKey] = [owner |-> n, t |-> 0]
                  /\ Registered("checkArrival", n)
                  /\ npcs[n].atSpot]_vars

\* an NPC stands at its spot, interactive, its plane shown and its countdown at 0
C31_Witness ==
  \E n \in Slots :
    /\ npcs[n].exists
    /\ npcs[n].atSpot
    /\ npcs[n].interactionHandler
    /\ npcs[n].planeVisible
    /\ Registered("waitTimer", n)
    /\ systems[Key("waitTimer", n)].t = 0

\* C32: a frame that runs the wait timers of two NPCs leaves the same counters,
\* the same game-over flag and the same end screen whichever of the two runs
\* first; when both countdowns end in that frame and the bad counter is one below
\* DELIVERED_TO_LOSE, both orders leave it at DELIVERED_TO_LOSE with the game lost.
C32_OrderIndependent ==
  \A n \in Slots, m \in Slots :
    (n # m /\ Registered("waitTimer", n) /\ Registered("waitTimer", m)) =>
      LET nm == runWaitTimer(runWaitTimer(World, n, DtMs), m, DtMs)
          mn == runWaitTimer(runWaitTimer(World, m, DtMs), n, DtMs)
          ends(x) == /\ npcs[x].exists
                     /\ ~npcs[x].hasReceivedItem
                     /\ systems[Key("waitTimer", x)].t + DtMs >= npcs[x].actualWaitTime
      IN /\ nm.goodDelivered = mn.goodDelivered
         /\ nm.badDelivered = mn.badDelivered
         /\ nm.isGameOver = mn.isGameOver
         /\ nm.gameFinishedEntity = mn.gameFinishedEntity
         /\ ~nm.thrown /\ ~mn.thrown
         /\ (ends(n) /\ ends(m) /\ badDelivered = DELIVERED_TO_LOSE - 1) =>
              /\ nm.badDelivered = DELIVERED_TO_LOSE
              /\ nm.isGameOver
              /\ nm.gameFinishedEntity = "lose"
              /\ nm.goodDelivered = goodDelivered

\* the countdown of one NPC has ended the game as lost, and the countdown of
\* another, which ends in the same frame, has not run yet
C32_Witness ==
  /\ isGameOver
  /\ badDelivered = DELIVERED_TO_LOSE
  /\ gameFinishedEntity = "lose"
  /\ \E m \in Slots :
        /\ npcs[m].used
        /\ ~npcs[m].exists
        /\ ~npcs[m].hasReceivedItem
        /\ npcs[m].scored = 0
        /\ Registered("waitTimer", m)
        /\ systems[Key("waitTimer", m)].t + DtMs >= npcs[m].actualWaitTime

\* C33: activeNPCs holds no NPC twice and holds exactly the NPCs whose entity
\* exists; an NPC enters it, at the end, in the step that creates it and no NPC
\* enters it otherwise; an NPC leaves it in the step that removes its entity, its
\* despawn or a removeAllNPCs, which empties the list.
C33_ActiveList ==
  /\ [](/\ \A i \in DOMAIN activeNPCs, j \in DOMAIN activeNPCs :
              activeNPCs[i] = activeNPCs[j] => i = j
         /\ \A n \in Slots : InList(activeNPCs, n) <=> npcs[n].exists)
  /\ [][\A n \in Slots :
          /\ (~InList(activeNPCs, n) /\ InList(activeNPCs', n)) =>
               /\ ~npcs[n].used
               /\ npcs'[n].exists
               /\ activeNPCs' = Append(activeNPCs, n)
          /\ (InList(activeNPCs, n) /\ ~InList(activeNPCs', n)) =>
               /\ npcs[n].exists
               /\ ~npcs'[n].exists
               /\ \/ activeNPCs' = <<>>
                  \/ /\ Registered("checkReturn", n)
                     /\ npcs[n].atOrigin
                     /\ activeNPCs' = removeNPCFromList(World, n).activeNPCs]_vars

\* the first NPC has walked back and is gone, and the list holds the second only
C33_Witness ==
  /\ ~isGameOver
  /\ npcIndex = 2
  /\ Len(activeNPCs) = 1
  /\ npcs[activeNPCs[1]].exists
  /\ npcs[activeNPCs[1]].npcId = 1

\* C34: neither counter is ever above its threshold; while the game is over no
\* item is found in the player's hand, giveItemToNPC called for an NPC that can
\* still be clicked returns at once whatever item entity it is given, a tick of a
\* wait timer that is still registered changes no counter, and no step but the
\* Play Again button changes a counter.
C34_CountersBounded ==
  /\ [](/\ goodDelivered \in 0..DELIVERED_TO_WIN
         /\ badDelivered \in 0..DELIVERED_TO_LOSE
         /\ isGameOver =>
              /\ HeldCandidates(World) = {}
              /\ \A n \in Slots, h \in 0..MaxNPCs :
                    (npcs[n].interactionHandler /\ npcs[n].collider) =>
                       giveItemToNPC(World, n, h) = World
              /\ \A n \in Slots : Registered("waitTimer", n) =>
                    LET w == waitTimerCallback(World, n, DtMs)
                    IN /\ w.goodDelivered = goodDelivered
                       /\ w.badDelivered = badDelivered
                       /\ w.npcs[n].scored = npcs[n].scored)
  /\ [][(isGameOver /\ ~playAgain) =>
           UNCHANGED <<goodDelivered, badDelivered>>]_vars

\* the game is over, an NPC that was waiting can still be clicked and its
\* countdown, still registered, is at its end
C34_Witness ==
  /\ isGameOver
  /\ \E n \in Slots :
        /\ npcs[n].interactionHandler
        /\ npcs[n].collider
        /\ ~npcs[n].hasReceivedItem
        /\ Registered("waitTimer", n)
        /\ systems[Key("waitTimer", n)].t + DtMs >= npcs[n].actualWaitTime

\* C35: while the game is over no NPC entity exists, the active list is empty,
\* every spot is free and the spawner is stopped; a tick of the spawner then
\* changes nothing, and every step from a game-over state to a game-over state
\* (the systems left behind by the removed NPCs) leaves all of that as it is.
C35_QuietWhenOver ==
  /\ [](isGameOver =>
          /\ ~isSpawning
          /\ activeNPCs = <<>>
          /\ \A n \in Slots : ~npcs[n].exists
          /\ \A spotId \in SpotIds : ~spots[spotId]
          /\ \A n \in Slots, elf \in BOOLEAN :
                startSpawning(World, DtMs, n, elf, FALSE) = World)
  /\ [][(isGameOver /\ isGameOver') =>
           /\ UNCHANGED <<spots, isSpawning, activeNPCs, npcIndex, elapsedTime>>
           /\ \A n \in Slots : ~npcs'[n].used => ~npcs[n].exists]_vars

\* the game is over and the countdown of an NPC that was waiting when it ended has
\* since ticked and removed itself
C35_Witness ==
  /\ isGameOver
  /\ \E n \in Slots :
        /\ npcs[n].used
        /\ ~npcs[n].exists
        /\ npcs[n].interactionHandler
        /\ ~npcs[n].hasReceivedItem
        /\ ~npcs[n].noLongerAcceptsItems
        /\ ~Registered("waitTimer", n)

\* C36: the step of the Play Again button leaves both counters at 0, the game-over
\* flag off, no end screen, the spawner active with npcIndex 0 and elapsedTime 0,
\* every spot free and no NPC; and in every state where the game is on and the
\* spawner is active with npcIndex 0 and elapsedTime 0, a spawner tick of any frame
\* length creates the NPC with id 0 at the first spot of NPC_SPOTS.
C36_FreshAfterReset ==
  /\ [][playAgain =>
           /\ goodDelivered' = 0
           /\ badDelivered' = 0
           /\ ~isGameOver'
           /\ gameFinishedEntity' = "none"
           /\ isSpawning'
           /\ npcIndex' = 0
           /\ elapsedTime' = 0
           /\ activeNPCs' = <<>>
           /\ \A spotId \in SpotIds : ~spots'[spotId]
           /\ \A n \in Slots : ~npcs'[n].exists]_vars
  /\ [](\A n \in Slots, elf \in BOOLEAN, dt \in {PaceDt, DtMs} :
          (~isGameOver /\ isSpawning /\ npcIndex = 0 /\ elapsedTime = 0 /\ NextSlot(n)) =>
             LET w == startSpawning(World, dt, n, elf, FALSE)
             IN /\ ~w.thrown
                /\ w.npcs[n].exists
                /\ w.npcs[n].npcId = 0
                /\ w.npcs[n].spotId = NPC_SPOTS[1]
                /\ w.spots = [spotId \in SpotIds |-> spotId = NPC_SPOTS[1]]
                /\ w.activeNPCs = <<n>>
                /\ w.npcIndex = 1)

\* a game has ended with an NPC waiting, Play Again was pressed, and the first NPC
\* of the new game walks to the first spot
C36_Witness ==
  /\ ~isGameOver
  /\ goodDelivered = 0
  /\ badDelivered = 0
  /\ npcIndex = 1
  /\ \E n \in Slots :
        /\ npcs[n].exists
        /\ npcs[n].npcId = 0
        /\ npcs[n].spotId = NPC_SPOTS[1]
        /\ activeNPCs = <<n>>
  /\ \E m \in Slots :
        /\ npcs[m].used
        /\ ~npcs[m].exists
        /\ npcs[m].interactionHandler

\* C37: the item attached to the hand of an NPC whose entity exists is not among
\* the items hasItemInRightHand and removeRightHandItem find; the discard station
\* leaves it where it is; and a click on another NPC, with or without an item in
\* the player's hand, leaves it where it is unless that click ends the game,
\* which removes every NPC and every item.
C37_NPCItemNotPlayers ==
  \A m \in Slots :
    (npcs[m].exists /\ npcs[m].item # NoItem /\ npcs[m].itemAttached) =>
      /\ m \notin HeldCandidates(World)
      /\ m \notin FoundItems(World)
      /\ \A h \in HeldCandidates(World) :
            /\ removeItemEntity(World, h).npcs[m] = npcs[m]
            /\ heldItemId(World, h) = playerItem
      /\ \A n \in Slots \ {m}, h \in FoundItems(World) :
            (npcs[n].interactionHandler /\ npcs[n].collider) =>
               LET w == interaction(World, n, h)
               IN \/ w.isGameOver /\ ~isGameOver
                  \/ w.npcs[m] = npcs[m]

\* an NPC walks off with the item it was given while the next one, served after
\* it, holds its own
C37_Witness ==
  \E m \in Slots, n \in Slots :
    /\ m # n
    /\ npcs[m].exists /\ npcs[m].item # NoItem /\ npcs[m].itemAttached
    /\ npcs[m].tween = "toOrigin"
    /\ npcs[n].exists /\ npcs[n].item # NoItem /\ npcs[n].itemAttached
    /\ npcs[n].tween = "none"

C39_LowestFreeSpot ==
  /\ \A i \in DOMAIN NPC_SPOTS, j \in DOMAIN NPC_SPOTS :
        i < j => NPC_SPOTS[i] < NPC_SPOTS[j]
  /\ [](LET spot == getFreeSpot(World)
        IN IF \A spotId \in SpotIds : spots[spotId]
           THEN spot = NoSpot
           ELSE /\ spot \in SpotIds
                /\ ~spots[spot]
                /\ \A spotId \in SpotIds : spotId < spot => spots[spotId])
  /\ [][\A n \in Slots :
          (~npcs[n].used /\ npcs'[n].used) =>
             /\ npcs'[n].spotId \in SpotIds
             /\ ~spots[npcs'[n].spotId]
             /\ spots'[npcs'[n].spotId]
             /\ \A spotId \in SpotIds : spotId < npcs'[n].spotId => spots[spotId]
             /\ npcs'[n].npcId = npcIndex]_vars

\* the first NPC has left its spot and the third NPC has been bound to it, not to
\* the last spot, which has not been used yet
C39_Witness ==
  \E n \in Slots, m \in Slots :
    /\ npcs[n].exists /\ npcs[n].npcId = 2 /\ npcs[n].spotId = NPC_SPOTS[1]
    /\ ~npcs[n].exiting
    /\ npcs[m].exists /\ npcs[m].npcId = 1 /\ npcs[m].spotId = NPC_SPOTS[2]
    /\ ~npcs[m].exiting
    /\ ~spots[NPC_SPOTS[3]]

====
